---- MODULE Spec2Model ----
(***************************************************************************)
(* Model of sunpycube's cube utilities (src/sunpycube/cube/cube_utils.py)  *)
(* and WCS helpers (src/sunpycube/wcs_util.py).                            *)
(*                                                                         *)
(* The library is a set of functions over cubes, coordinate systems,       *)
(* headers and cube sequences.  The state is one constructed object (a     *)
(* cube sequence, a cube, an array/WCS pair, a WCS or a header) together   *)
(* with the record of the last call made on it and what that call          *)
(* returned or raised.                                                     *)
(***************************************************************************)
EXTENDS Integers, Sequences, FiniteSets, TLC

VARIABLES seq, cube, pair, axes_wcs, header, call

vars == <<seq, cube, pair, axes_wcs, header, call>>

(***************************************************************************)
(* Bounds of the model.                                                    *)
(***************************************************************************)
MaxCubes == 3
MaxLen == 3
MaxExtent == 3
MaxInt == 1
MaxCrpix == 1
MaxCrval == 1
MaxCdelt == 2
MaxValue == 3
MaxAxes == 3
MaxCommonAxis == 1

(***************************************************************************)
(* Python values.  None, ints, slices, quantities and tuples are tagged    *)
(* records so that isinstance() can be evaluated on them.                  *)
(***************************************************************************)
NoneV == [k |-> "None"]
IntV(n) == [k |-> "int", v |-> n]
SliceV(a, b, c) == [k |-> "slice", start |-> a, stop |-> b, step |-> c]
QuantityV(x, u) == [k |-> "Quantity", value |-> x, unit |-> u]
TupleV(xs) == [k |-> "tuple", items |-> xs]
ListV(xs) == [k |-> "list", items |-> xs]

IsNone(x) == x.k = "None"
IsInt(x) == x.k = "int"
IsSlice(x) == x.k = "slice"
IsQuantity(x) == x.k = "Quantity"
IsTuple(x) == x.k = "tuple"
IsList(x) == x.k = "list"

Raise(e) == [ok |-> FALSE, err |-> e]
\* raise CubeError(value, msg)
RaiseCubeError(value) == [ok |-> FALSE, err |-> "CubeError", value |-> value]
\* raise ValueError(message)
RaiseValueError(message) == [ok |-> FALSE, err |-> "ValueError", message |-> message]
Return(x) == [ok |-> TRUE, val |-> x]

Min(a, b) == IF a < b THEN a ELSE b
Max(a, b) == IF a > b THEN a ELSE b
SetMax(S) == CHOOSE x \in S : \A y \in S : y <= x

\* All sequences over S of length lo..hi.
SeqsOf(S, lo, hi) == UNION {[1..n -> S] : n \in lo..hi}

(***************************************************************************)
(* range(start, stop, step) for step >= 1, as a sequence.                  *)
(***************************************************************************)
PyRange(start, stop, step) ==
    IF stop <= start THEN <<>>
    ELSE [i \in 1..((stop - start + step - 1) \div step) |-> start + (i - 1) * step]

(***************************************************************************)
(* list[slice] for a slice with non-negative or None bounds and a step     *)
(* that is None or >= 1: the 0-based positions selected (slice.indices).   *)
(***************************************************************************)
PySliceIndices(n, sl) ==
    LET start == IF IsNone(sl.start) THEN 0 ELSE Min(sl.start.v, n)
        stop == IF IsNone(sl.stop) THEN n ELSE Min(sl.stop.v, n)
        step == IF IsNone(sl.step) THEN 1 ELSE sl.step.v
    IN PyRange(start, stop, step)

\* ndarray.take / list selection of 0-based positions.
Take(xs, idx) == [i \in 1..Len(idx) |-> xs[idx[i] + 1]]

(***************************************************************************)
(* Axis reordering (select_order, orient).                                 *)
(***************************************************************************)
\* Python's ordering of the CTYPE strings (str.__lt__), used by list.sort.
StrRank(t) ==
    CASE t = "HPLN-TAN" -> 0
      [] t = "HPLT-TAN" -> 1
      [] t = "STOKES" -> 2
      [] t = "TIME" -> 3
      [] t = "UTC" -> 4
      [] t = "WAVE" -> 5

\* list.index(x): the 0-based position of the first element equal to x.
ListIndex(xs, x) == (CHOOSE i \in 1..Len(xs) : xs[i] = x /\ \A j \in 1..(i - 1) : xs[j] # x) - 1

\* The priority select_order pairs with each CTYPE.
Priority(axtypes, t) ==
    IF t \in {"TIME", "UTC"} THEN 0
    ELSE IF t = "WAVE" THEN 1
    ELSE IF t = "HPLT-TAN" THEN 2
    ELSE ListIndex(axtypes, t) + 3

\* (a, s) < (b, t) for the tuples select_order sorts.
TupleLess(a, s, b, t) == a < b \/ (a = b /\ StrRank(s) < StrRank(t))

\* list.sort() of the (priority, ctype) tuples: the positions in sorted order (stable).
SortedPositions(axtypes) ==
    LET n == Len(axtypes)
        Before(i, j) ==
            \/ TupleLess(Priority(axtypes, axtypes[i]), axtypes[i],
                         Priority(axtypes, axtypes[j]), axtypes[j])
            \/ (~TupleLess(Priority(axtypes, axtypes[j]), axtypes[j],
                           Priority(axtypes, axtypes[i]), axtypes[i]) /\ i < j)
    IN [r \in 1..n |-> CHOOSE i \in 1..n : Cardinality({j \in 1..n : Before(j, i)}) = r - 1]

SelectOrderPriorities(axtypes) ==
    LET sorted == SortedPositions(axtypes)
    IN [r \in 1..Len(axtypes) |-> Priority(axtypes, axtypes[sorted[r]])]

\* select_order(axtypes): 0-based indices.
select_order(axtypes) ==
    LET sorted == SortedPositions(axtypes)
    IN [r \in 1..Len(axtypes) |-> ListIndex(axtypes, axtypes[sorted[r]])]

IsPermutation(order, n) ==
    Len(order) = n /\ \A v \in 0..(n - 1) : \E i \in 1..n : order[i] = v

\* ndarray.transpose(order): an array is the list of the original axes it holds.
Transpose(array, order) ==
    IF IsPermutation(order, Len(array))
    THEN Return([i \in 1..Len(order) |-> array[order[i] + 1]])
    ELSE Raise("ValueError")

\* wcs_util.reindex_wcs(wcs, inds): axis k of the result is axis inds[k] of wcs.
reindex_wcs(w, inds) ==
    [ctype |-> [i \in 1..Len(inds) |-> w.ctype[inds[i] + 1]],
     oriented |-> FALSE, was_augmented |-> FALSE]

\* axtypes[2::-1]
FirstThreeReversed(axtypes) == <<axtypes[3], axtypes[2], axtypes[1]>>

OrientKeepFlag(p) ==
    IF p.wcs.oriented THEN Return(p)
    ELSE IF Len(p.array) # 3 /\ Len(p.array) # 4
    THEN RaiseValueError("Input array must be 3- or 4-dimensional")
    ELSE IF ~(\/ (Len(p.wcs.ctype) = 3 /\ Len(p.array) = 3)
              \/ (Len(p.wcs.ctype) = 4 /\ Len(p.array) = 4 /\ ~p.wcs.was_augmented)
              \/ (Len(p.wcs.ctype) = 4 /\ Len(p.array) = 3 /\ p.wcs.was_augmented))
    THEN RaiseValueError("WCS must have the same dimensions as the array")
    ELSE LET axtypes == p.wcs.ctype
             array_order == IF p.wcs.was_augmented
                            THEN select_order(FirstThreeReversed(axtypes))
                            ELSE select_order(axtypes)
             result_array == Transpose(p.array, array_order)
             wcs_order == select_order(axtypes)
             result_wcs == [reindex_wcs(p.wcs, wcs_order)
                               EXCEPT !.was_augmented = p.wcs.was_augmented]
             result_extra == Transpose(p.extra, array_order)
         IN IF ~result_array.ok THEN result_array
            ELSE Return([p EXCEPT !.array = result_array.val, !.wcs = result_wcs,
                                  !.extra = result_extra.val])

\* orient(array, wcs, *extra_arrs) with one extra array.
orient(p) ==
    IF p.wcs.oriented THEN Return(p)
    ELSE IF Len(p.array) # 3 /\ Len(p.array) # 4
    THEN RaiseValueError("Input array must be 3- or 4-dimensional")
    ELSE IF ~(\/ (Len(p.wcs.ctype) = 3 /\ Len(p.array) = 3)
              \/ (Len(p.wcs.ctype) = 4 /\ Len(p.array) = 4 /\ ~p.wcs.was_augmented)
              \/ (Len(p.wcs.ctype) = 4 /\ Len(p.array) = 3 /\ p.wcs.was_augmented))
    THEN RaiseValueError("WCS must have the same dimensions as the array")
    ELSE LET axtypes == p.wcs.ctype
             array_order == IF p.wcs.was_augmented
                            THEN select_order(FirstThreeReversed(axtypes))
                            ELSE select_order(axtypes)
             result_array == Transpose(p.array, array_order)
             wcs_order == select_order(axtypes)
             result_wcs == [reindex_wcs(p.wcs, wcs_order)
                               EXCEPT !.was_augmented = p.wcs.was_augmented,
                                      !.oriented = TRUE]
             result_extra == Transpose(p.extra, array_order)
         IN IF ~result_array.ok THEN result_array
            ELSE Return([p EXCEPT !.array = result_array.val, !.wcs = result_wcs,
                                  !.extra = result_extra.val])

(***************************************************************************)
(* WCS construction (wcs_util.py).  A header is what a WCS reads from it:  *)
(* its NAXIS card, or None when it has none, and for each axis number the  *)
(* axis cards, blank where the header has no card.  Python 2 semantics,    *)
(* which the module's err.message requires: None sorts below every int.    *)
(***************************************************************************)
\* The cards of an axis the header says nothing about.
BlankCard == [CTYPE |-> "", CRPIX |-> 0, CDELT |-> 1, CRVAL |-> 0, CUNIT |-> "",
              CNAME |-> "", CROTA |-> 0]

\* new_wcs_axes_params
new_wcs_axes_params ==
    [CTYPE |-> "HPLN-TAN", CRPIX |-> 0, CDELT |-> 1, CRVAL |-> 0, CUNIT |-> "deg",
     CNAME |-> "redundant axis", CROTA |-> 0]

IsCelestial(t) == t \in {"HPLN-TAN", "HPLT-TAN"}
Complement(t) == IF t = "HPLN-TAN" THEN "HPLT-TAN" ELSE "HPLN-TAN"

\* [x for x in xs if IsCelestial(x)]
RECURSIVE CelestialOf(_)
CelestialOf(xs) ==
    IF xs = <<>> THEN <<>>
    ELSE IF IsCelestial(Head(xs)) THEN <<Head(xs)>> \o CelestialOf(Tail(xs))
    ELSE CelestialOf(Tail(xs))

\* wcs.WCS(header=...) / get_axis_types() on a list of axis types with at
\* most two celestial axes: it resolves, or raises InconsistentAxisTypesError
\* whose message is "Unmatched celestial axes" or ends in "expected X, got Y".
AxisTypes(ctypes) ==
    LET cel == CelestialOf(ctypes)
    IN CASE Len(cel) = 0 -> [ok |-> TRUE]
         [] Len(cel) = 1 -> [ok |-> FALSE, err |-> "InconsistentAxisTypesError",
                             message |-> "Unmatched celestial axes", expected |-> ""]
         [] Len(cel) = 2 ->
               IF cel[2] = Complement(cel[1]) THEN [ok |-> TRUE]
               ELSE [ok |-> FALSE, err |-> "InconsistentAxisTypesError",
                     message |-> "expected", expected |-> Complement(cel[1])]

\* The axis types a WCS reads from a header.
CtypesOf(hdr) == [i \in 1..Len(hdr.cards) |-> hdr.cards[i].CTYPE]

\* header[param + axis] = value for every param of card; axis is 1-based.
SetCards(hdr, axis, card) ==
    [hdr EXCEPT !.cards =
        [i \in 1..Max(Len(hdr.cards), axis) |->
            IF i = axis THEN card
            ELSE IF i <= Len(hdr.cards) THEN hdr.cards[i] ELSE BlankCard]]

\* header['CTYPE' + axis] = ctype
SetCtype(hdr, axis, ctype) ==
    [hdr EXCEPT !.cards =
        [i \in 1..Max(Len(hdr.cards), axis) |->
            IF i = axis
            THEN [(IF i <= Len(hdr.cards) THEN hdr.cards[i] ELSE BlankCard)
                     EXCEPT !.CTYPE = ctype]
            ELSE IF i <= Len(hdr.cards) THEN hdr.cards[i] ELSE BlankCard]]

\* WCS._needs_augmenting(header)
needs_augmenting(hdr) ==
    LET r == AxisTypes(CtypesOf(hdr))
    IN ~r.ok /\ r.message = "Unmatched celestial axes"

\* WCS._augment(header, naxis): what it returns or raises, and the header
\* the caller passed as the call leaves it.
augment(hdr, naxis) ==
    LET have == IF IsNone(hdr.NAXIS) THEN 0 ELSE hdr.NAXIS.v
        axis == (IF IsNone(naxis) THEN have ELSE Max(have, naxis.v)) + 1
        newheader == SetCards(hdr, axis, new_wcs_axes_params)
        r == AxisTypes(CtypesOf(newheader))
    IN IF r.ok THEN [res |-> Return(newheader), header |-> hdr]
       ELSE IF r.expected = "" THEN [res |-> Raise("IndexError"), header |-> hdr]
       ELSE [res |-> Return(newheader), header |-> SetCtype(hdr, axis, r.expected)]

\* WCS.__init__(header, naxis): the WCS built, as its axis types and flags.
wcs_init(hdr, naxis) ==
    LET aug == needs_augmenting(hdr)
        a == augment(hdr, naxis)
        h == IF aug THEN a.res ELSE Return(hdr)
    IN IF ~h.ok THEN [res |-> h, header |-> a.header]
       ELSE LET r == AxisTypes(CtypesOf(h.val))
                after == IF aug THEN a.header ELSE hdr
            IN IF ~r.ok THEN [res |-> Raise("InconsistentAxisTypesError"), header |-> after]
               ELSE [res |-> Return([ctype |-> CtypesOf(h.val), oriented |-> FALSE,
                                     was_augmented |-> aug]),
                     header |-> after]

\* add_celestial_axis(wcs) for a WCS with one unmatched celestial axis.
add_celestial_axis(w) ==
    LET ctype == Append(w.ctype, new_wcs_axes_params.CTYPE)
        r == AxisTypes(ctype)
        outwcs == [ctype |-> ctype, oriented |-> FALSE, was_augmented |-> FALSE]
    IN IF r.ok THEN Return(outwcs)
       ELSE IF r.expected = "" THEN Raise("IndexError")
       ELSE Return([outwcs EXCEPT !.ctype[Len(ctype)] = r.expected])

(***************************************************************************)
(* Physical-unit to pixel translation (convert_point, _convert_slice,      *)
(* pixelize_slice).  Angular values are exact multiples of an arcsecond.   *)
(***************************************************************************)
\* The size of one unit in arcseconds (astropy's conversion factors).
Scale(u) == IF u = "deg" THEN 3600 ELSE 1

\* int(np.round(num / den)): nearest integer, halves to the even neighbour.
RoundHalfEven(num, den) ==
    LET n == IF den < 0 THEN -num ELSE num
        d == IF den < 0 THEN -den ELSE den
        q == n \div d
        r == n - q * d
    IN IF 2 * r < d THEN q
       ELSE IF 2 * r > d THEN q + 1
       ELSE IF q % 2 = 0 THEN q ELSE q + 1

\* xs[i] for a Python index i that may be negative.
PyAt(xs, i) == IF i < 0 THEN xs[Len(xs) + i + 1] ELSE xs[i + 1]

\* int(point): truncation toward zero.
Truncate(num, den) ==
    LET n == IF den < 0 THEN -num ELSE num
        d == IF den < 0 THEN -den ELSE den
    IN IF n >= 0 THEN n \div d ELSE -((-n) \div d)

ConvertPointTruncate(value, unit, w, axis, source) ==
    IF IsNone(value) THEN Return(NoneV)
    ELSE IF unit = "None" \/ unit = "pix"
    THEN IF IsQuantity(value) THEN Raise("TypeError") ELSE Return(IntV(value.v))
    ELSE IF IsQuantity(value) THEN Raise("AttributeError")
    ELSE LET wcsaxis == IF source = "cube"
                        THEN (IF ~w.was_augmented THEN -1 - axis ELSE -2 - axis)
                        ELSE 1 - axis
             cunit == PyAt(w.cunit, wcsaxis)
             crpix == PyAt(w.crpix, wcsaxis)
             crval == PyAt(w.crval, wcsaxis)
             cdelt == PyAt(w.cdelt, wcsaxis)
         IN Return(IntV(Truncate(
                crpix * cdelt * Scale(cunit) + value.v * Scale(unit) - crval * Scale(cunit),
                cdelt * Scale(cunit))))

\* convert_point(value, unit, wcs, axis, _source); int() of a whole number is
\* that number, int() of a quantity that carries a unit is a TypeError, and
\* a float has no .unit for the Quantity branch to read.
convert_point(value, unit, w, axis, source) ==
    IF IsNone(value) THEN Return(NoneV)
    ELSE IF unit = "None" \/ unit = "pix"
    THEN IF IsQuantity(value) THEN Raise("TypeError") ELSE Return(IntV(value.v))
    ELSE IF IsQuantity(value) THEN Raise("AttributeError")
    ELSE LET wcsaxis == IF source = "cube"
                        THEN (IF ~w.was_augmented THEN -1 - axis ELSE -2 - axis)
                        ELSE 1 - axis
             cunit == PyAt(w.cunit, wcsaxis)
             crpix == PyAt(w.crpix, wcsaxis)
             crval == PyAt(w.crval, wcsaxis)
             cdelt == PyAt(w.cdelt, wcsaxis)
         IN Return(IntV(RoundHalfEven(
                crpix * cdelt * Scale(cunit) + value.v * Scale(unit) - crval * Scale(cunit),
                cdelt * Scale(cunit))))

\* pixelize(coord, wcs, axis): the coordinate itself is handed on as the value.
pixelize(coord, w, axis) ==
    convert_point(coord, IF IsQuantity(coord) THEN coord.unit ELSE "None", w, axis, "cube")

RECURSIVE SliceUnitFirst(_, _, _)
SliceUnitFirst(steps, i, unit) ==
    IF i > 3 THEN Return(unit)
    ELSE IF IsQuantity(steps[i]) /\ unit = "None"
    THEN SliceUnitFirst(steps, i + 1, steps[i].unit)
    ELSE SliceUnitFirst(steps, i + 1, unit)

\* The unit _convert_slice settles on after looking at start, stop and step.
RECURSIVE SliceUnit(_, _, _)
SliceUnit(steps, i, unit) ==
    IF i > 3 THEN Return(unit)
    ELSE IF IsQuantity(steps[i])
    THEN IF unit # "None" /\ steps[i].unit # unit
         THEN RaiseCubeError(5)
         ELSE SliceUnit(steps, i + 1, steps[i].unit)
    ELSE SliceUnit(steps, i + 1, unit)

\* values[i]: the magnitude of a quantity, anything else as it is.
Magnitude(x) == IF IsQuantity(x) THEN IntV(x.value) ELSE x

\* _convert_slice(item, wcs, axis, _source); CubeError is raised with its code.
convert_slice(item, w, axis, source) ==
    LET wcs_ax == IF source = "cube"
                  THEN (IF w.was_augmented THEN -2 - axis ELSE -1 - axis)
                  ELSE 1 - axis
        steps == <<item.start, item.stop, item.step>>
        values == [i \in 1..3 |-> Magnitude(steps[i])]
        unit == SliceUnit(steps, 1, "None")
    IN IF ~unit.ok THEN unit
       ELSE IF unit.val = "None" THEN Return(item)
       ELSE IF ~IsNone(values[3]) /\ unit.val = "pix" THEN Raise("UnitConversionError")
       ELSE LET cunit == PyAt(w.cunit, wcs_ax)
                cdelt == PyAt(w.cdelt, wcs_ax)
                delta == IF IsNone(values[3]) THEN NoneV
                         ELSE IntV(RoundHalfEven(values[3].v * Scale(unit.val),
                                                 cdelt * Scale(cunit)))
                start == convert_point(values[1], unit.val, w, axis, source)
                end == convert_point(values[2], unit.val, w, axis, source)
            IN Return(SliceV(start.val, end.val, delta))

\* One component of a tuple handed to pixelize_slice.
PixelizeComponent(x, w, axis, source) ==
    IF IsSlice(x) THEN convert_slice(x, w, axis, source)
    ELSE IF IsQuantity(x) THEN convert_point(IntV(x.value), x.unit, w, axis, source)
    ELSE Return(x)

\* pixelize_slice(item, wcs, _source): the first exception raised propagates.
pixelize_slice(item, w, source) ==
    IF IsTuple(item)
    THEN LET parts == [i \in 1..Len(item.items) |->
                          PixelizeComponent(item.items[i], w, i - 1, source)]
             failed == {i \in 1..Len(parts) : ~parts[i].ok}
         IN IF failed # {}
            THEN parts[CHOOSE i \in failed : \A j \in failed : i <= j]
            ELSE Return(TupleV([i \in 1..Len(parts) |-> parts[i].val]))
    ELSE IF IsQuantity(item) THEN convert_point(IntV(item.value), item.unit, w, 0, "cube")
    ELSE IF IsSlice(item) THEN convert_slice(item, w, 0, source)
    ELSE Return(item)

(***************************************************************************)
(* Cubes.  A cube is its WCS axis types, for each array axis the original  *)
(* positions its data (and mask and uncertainty) hold along that axis,     *)
(* and for each array axis the original position the coordinate system     *)
(* assigns to each pixel (wcs.slice with a step-less slice shifts the      *)
(* reference pixel and keeps the spacing).                                 *)
(***************************************************************************)
NewCube(axes, shape) ==
    [k |-> "Cube", axes |-> axes,
     pos |-> [i \in 1..Len(shape) |-> PyRange(0, shape[i], 1)],
     mask |-> [i \in 1..Len(shape) |-> PyRange(0, shape[i], 1)],
     errors |-> [i \in 1..Len(shape) |-> PyRange(0, shape[i], 1)],
     wcs_pos |-> [i \in 1..Len(shape) |-> PyRange(0, shape[i], 1)]]

ndim(c) == Len(c.pos)
shape(c) == [i \in 1..Len(c.pos) |-> Len(c.pos[i])]

\* newwcs.slice([slice(0, n0), ..., slice(start, stop)]) along the last listed axis.
WcsSlice(wpos, start, stop) == Take(wpos, PySliceIndices(Len(wpos), SliceV(IntV(start), IntV(stop), NoneV)))

ReduceDimNoClamp(c, axis, keys) ==
    LET extent == shape(c)[axis + 1]
        start == IF ~IsNone(keys.start) THEN keys.start.v ELSE 0
        stop0 == IF ~IsNone(keys.stop) THEN keys.stop.v ELSE extent
        stop == IF stop0 > extent THEN extent ELSE stop0
        step == IF ~IsNone(keys.step) THEN keys.step.v ELSE 1
        indices == PyRange(start, stop, step)
    IN [c EXCEPT !.pos[axis + 1] = Take(@, [i \in 1..Len(indices) |-> indices[i] % extent]),
                 !.mask[axis + 1] = Take(@, [i \in 1..Len(indices) |-> indices[i] % extent]),
                 !.errors[axis + 1] = Take(@, [i \in 1..Len(indices) |-> indices[i] % extent]),
                 !.wcs_pos[axis + 1] = WcsSlice(@, Max(start, 0), stop)]

\* reduce_dim(cube, axis, keys); axis is 0-based as in the source.
reduce_dim(c, axis, keys) ==
    LET extent == shape(c)[axis + 1]
        start0 == IF ~IsNone(keys.start) THEN keys.start.v ELSE 0
        stop0 == IF ~IsNone(keys.stop) THEN keys.stop.v ELSE extent
        stop == IF stop0 > extent THEN extent ELSE stop0
        start == IF start0 < 0 THEN 0 ELSE start0
        step == IF ~IsNone(keys.step) THEN keys.step.v ELSE 1
        indices == PyRange(start, stop, step)
    IN [c EXCEPT !.pos[axis + 1] = Take(@, indices),
                 !.mask[axis + 1] = Take(@, indices),
                 !.errors[axis + 1] = Take(@, indices),
                 !.wcs_pos[axis + 1] = WcsSlice(@, start, stop)]

(***************************************************************************)
(* Index classification and dispatch (getitem_3d, getitem_4d).             *)
(***************************************************************************)
\* iter_isinstance(obj, *type_tuples): patterns are sequences of type names.
iter_isinstance(obj, type_tuples) ==
    /\ (IsTuple(obj) \/ IsList(obj))
    /\ \E types \in type_tuples :
          /\ Len(obj.items) = Len(types)
          /\ \A i \in 1..Len(types) : obj.items[i].k = types[i]

\* any(isinstance(i, int) for i in item)
AnyInt(item) == \E i \in 1..Len(item.items) : IsInt(item.items[i])

\* [i for i in item if isinstance(i, int)]
RECURSIVE IntsOf(_)
IntsOf(xs) ==
    IF xs = <<>> THEN <<>>
    ELSE IF IsInt(Head(xs)) THEN <<Head(xs)>> \o IntsOf(Tail(xs))
    ELSE IntsOf(Tail(xs))

\* A call of one of the cube's product constructors.
Product(fn, on, args, kwargs) ==
    [k |-> "Product", fn |-> fn, on |-> on, args |-> args, kwargs |-> kwargs]

handle_slice_to_spectrum(c, item) ==
    IF ndim(c) = 3
    THEN IF IsInt(item)
         THEN Return(Product("slice_to_spectrum", c, <<item, NoneV>>, {}))
         ELSE IF iter_isinstance(item, {<<"int", "slice", "int">>})
         THEN Return(Product("slice_to_spectrum", c, <<item.items[1], item.items[3]>>, {}))
         ELSE IF iter_isinstance(item, {<<"slice", "int", "int">>})
         THEN Return(Product("slice_to_spectrum", c, <<item.items[2], item.items[3]>>, {}))
         ELSE Return(Product("slice_to_spectrum", c, <<item.items[1], NoneV>>, {}))
    ELSE IF iter_isinstance(item, {<<"int", "slice", "int", "int">>})
         THEN Return(Product("slice_to_spectrum", c,
                             <<item.items[1], item.items[3], item.items[4]>>, {}))
         ELSE IF iter_isinstance(item, {<<"int", "slice", "int", "slice">>,
                                        <<"int", "slice", "int">>})
         THEN Return(Product("slice_to_spectrum", c,
                             <<item.items[1], item.items[3], NoneV>>, {}))
         ELSE IF iter_isinstance(item, {<<"int", "slice", "slice", "int">>})
         THEN Return(Product("slice_to_spectrum", c,
                             <<item.items[1], NoneV, item.items[4]>>, {}))
         ELSE Raise("UnboundLocalError")

handle_slice_to_lightcurve(c, item) ==
    IF ndim(c) = 3
    THEN IF iter_isinstance(item, {<<"slice", "int", "int">>})
         THEN Return(Product("slice_to_lightcurve", c, <<item.items[2], item.items[3]>>, {}))
         ELSE Return(Product("slice_to_lightcurve", c, <<item.items[2]>>, {}))
    ELSE IF iter_isinstance(item, {<<"slice", "int", "int", "int">>})
         THEN Return(Product("slice_to_lightcurve", c,
                             <<item.items[2], item.items[3], item.items[4]>>, {}))
         ELSE IF iter_isinstance(item, {<<"slice", "int", "slice", "int">>})
         THEN Return(Product("slice_to_lightcurve", c, <<item.items[2]>>,
                             {<<"x_coord", item.items[4]>>}))
         ELSE Return(Product("slice_to_lightcurve", c, <<item.items[2]>>,
                             {<<"y_coord", item.items[3]>>}))

handle_slice_to_map(c, item) ==
    IF ndim(c) = 3
    THEN IF IsInt(item)
         THEN Return(Product("slice_to_map", c, <<item>>, {}))
         ELSE Return(Product("slice_to_map", c, <<item.items[1]>>, {}))
    ELSE Return(Product("slice_to_map", c, <<item.items[1], item.items[2]>>, {}))

HandleSliceToCubeAxisZero(hypcube, item) ==
    IF IsInt(item)
    THEN Return(Product("slice_to_cube", hypcube, <<IntV(0), item>>, {}))
    ELSE Return(Product("slice_to_cube", hypcube, <<IntV(0), IntsOf(item.items)[1]>>, {}))

\* handle_slice_to_cube: item.index(chunk) is the first position equal to chunk.
handle_slice_to_cube(hypcube, item) ==
    IF IsInt(item)
    THEN Return(Product("slice_to_cube", hypcube, <<IntV(0), item>>, {}))
    ELSE LET chunk == IntsOf(item.items)[1]
             found == {i \in 1..Len(item.items) : item.items[i] = chunk}
             axis == (CHOOSE i \in found : \A j \in found : i <= j) - 1
         IN Return(Product("slice_to_cube", hypcube, <<IntV(axis), chunk>>, {}))

\* The copy and the per-component reductions both getitem functions start with.
RECURSIVE ReduceByTuple(_, _, _)
ReduceByTuple(c, items, i) ==
    IF i > Len(items) THEN c
    ELSE IF IsSlice(items[i])
    THEN ReduceByTuple(reduce_dim(c, i - 1, items[i]), items, i + 1)
    ELSE ReduceByTuple(c, items, i + 1)

reducedcube(c, item) ==
    LET copy == reduce_dim(c, 0, SliceV(NoneV, NoneV, NoneV))
        r1 == IF IsTuple(item) THEN ReduceByTuple(copy, item.items, 1) ELSE copy
    IN IF IsSlice(item) THEN reduce_dim(r1, 0, item) ELSE r1

Classify3dLoose(axes, item) ==
    [slice_to_map |->
         axes[2] # "WAVE" /\
         (IsInt(item) \/ iter_isinstance(item, {<<"int", "slice">>,
                                                <<"int", "slice", "slice">>})),
     slice_to_spectrum |->
         \/ (IsInt(item) \/ iter_isinstance(item, {<<"int", "slice">>,
                                                   <<"int", "slice", "slice">>,
                                                   <<"int", "slice", "int">>}))
         \/ (axes[1] = "WAVE" /\ iter_isinstance(item, {<<"slice", "int", "int">>})),
     slice_to_spectrogram |->
         iter_isinstance(item, {<<"slice", "slice", "int">>}) /\ axes[2] = "WAVE",
     slice_to_lightcurve |->
         axes[2] = "WAVE" /\
         iter_isinstance(item, {<<"slice", "int", "int">>, <<"slice", "int">>,
                                <<"slice", "int", "slice">>}),
     slice_to_cube |-> FALSE,
     stay_as_cube |->
         IsSlice(item) \/ (IsTuple(item) /\ ~AnyInt(item))]

\* The classification flags of getitem_3d; axes is cube.axes_wcs.wcs.ctype.
\* getitem_3d has no slice_to_cube flag: the field is there so that both
\* ranks' flags have one shape.
Classify3d(axes, item) ==
    [slice_to_map |->
         axes[2] # "WAVE" /\
         (IsInt(item) \/ iter_isinstance(item, {<<"int", "slice">>,
                                                <<"int", "slice", "slice">>})),
     slice_to_spectrum |->
         \/ ((IsInt(item) \/ iter_isinstance(item, {<<"int", "slice">>,
                                                    <<"int", "slice", "slice">>,
                                                    <<"int", "slice", "int">>}))
             /\ axes[2] = "WAVE")
         \/ (axes[1] = "WAVE" /\ iter_isinstance(item, {<<"slice", "int", "int">>})),
     slice_to_spectrogram |->
         iter_isinstance(item, {<<"slice", "slice", "int">>}) /\ axes[2] = "WAVE",
     slice_to_lightcurve |->
         axes[2] = "WAVE" /\
         iter_isinstance(item, {<<"slice", "int", "int">>, <<"slice", "int">>,
                                <<"slice", "int", "slice">>}),
     slice_to_cube |-> FALSE,
     stay_as_cube |->
         IsSlice(item) \/ (IsTuple(item) /\ ~AnyInt(item))]

\* The classification flags of getitem_4d.
Classify4d(item) ==
    [slice_to_map |->
         iter_isinstance(item, {<<"int", "int">>, <<"int", "int", "slice">>,
                                <<"int", "int", "slice", "slice">>}),
     slice_to_spectrogram |->
         iter_isinstance(item, {<<"slice", "slice", "int", "int">>}),
     slice_to_spectrum |->
         iter_isinstance(item, {<<"int", "slice", "int", "int">>,
                                <<"int", "slice", "int">>,
                                <<"int", "slice", "int", "slice">>,
                                <<"int", "slice", "slice", "int">>}),
     slice_to_cube |->
         IsInt(item) \/ (IsTuple(item) /\ Len(IntsOf(item.items)) = 1),
     slice_to_lightcurve |->
         iter_isinstance(item, {<<"slice", "int", "int", "int">>,
                                <<"slice", "int", "int">>,
                                <<"slice", "int", "int", "slice">>,
                                <<"slice", "int", "slice", "int">>}),
     stay_as_cube |->
         IsSlice(item) \/ (IsTuple(item) /\ ~AnyInt(item))]

Getitem3dSpectrumFirst(c, item) ==
    LET f == Classify3d(c.axes, item)
        r == reducedcube(c, item)
    IN IF f.slice_to_spectrum \/ f.slice_to_map THEN handle_slice_to_spectrum(r, item)
       ELSE IF f.slice_to_spectrogram
       THEN Return(Product("slice_to_spectrogram", r, <<item.items[3]>>, {}))
       ELSE IF f.slice_to_lightcurve THEN handle_slice_to_lightcurve(r, item)
       ELSE IF f.stay_as_cube THEN Return(r)
       ELSE Return(Product("data", c, <<item>>, {}))

getitem_3d(c, item) ==
    LET f == Classify3d(c.axes, item)
        r == reducedcube(c, item)
    IN IF f.slice_to_map THEN handle_slice_to_map(r, item)
       ELSE IF f.slice_to_spectrum THEN handle_slice_to_spectrum(r, item)
       ELSE IF f.slice_to_spectrogram
       THEN Return(Product("slice_to_spectrogram", r, <<item.items[3]>>, {}))
       ELSE IF f.slice_to_lightcurve THEN handle_slice_to_lightcurve(r, item)
       ELSE IF f.stay_as_cube THEN Return(r)
       ELSE Return(Product("data", c, <<item>>, {}))

getitem_4d(c, item) ==
    LET f == Classify4d(item)
        r == reducedcube(c, item)
    IN IF f.slice_to_map THEN handle_slice_to_map(r, item)
       ELSE IF f.slice_to_spectrum THEN handle_slice_to_spectrum(r, item)
       ELSE IF f.slice_to_spectrogram
       THEN Return(Product("slice_to_spectrogram", r, <<item.items[3], item.items[4]>>, {}))
       ELSE IF f.slice_to_lightcurve THEN handle_slice_to_lightcurve(r, item)
       ELSE IF f.slice_to_cube THEN handle_slice_to_cube(r, item)
       ELSE IF f.stay_as_cube THEN Return(r)
       ELSE Return(Product("data", c, <<item>>, {}))

(***************************************************************************)
(* Cube sequences.  A sequence is the list of its cubes' lengths along     *)
(* the common axis; the elements of cube i are named by their global       *)
(* positions in the concatenation.                                         *)
(***************************************************************************)
RECURSIVE SumTo(_, _)
SumTo(ls, i) == IF i = 0 THEN 0 ELSE ls[i] + SumTo(ls, i - 1)

\* np.cumsum of the cubes' lengths along the common axis.
cumul_cube_lengths(ls) == [i \in 1..Len(ls) |-> SumTo(ls, i)]

\* cubesequence.data: cube i holds global positions offset..offset+len-1.
SequenceData(ls) ==
    [i \in 1..Len(ls) |->
        [NewCube(<<"HPLN-TAN", "HPLT-TAN", "TIME">>, <<ls[i], 1, 1>>)
            EXCEPT !.pos[1] = [j \in 1..ls[i] |-> SumTo(ls, i - 1) + j - 1]]]

ConvertIndexNoAdvance(cube_like_index, cumul) ==
    IF cube_like_index < cumul[1]
    THEN <<0, cube_like_index>>
    ELSE LET where == {i \in 1..Len(cumul) : cumul[i] <= cube_like_index}
             sequence_index == SetMax(where) - 1
             cube_index == IF cube_like_index > cumul[Len(cumul)] - 1
                           THEN cumul[1] - 1
                           ELSE cube_like_index - cumul[sequence_index + 1]
         IN <<sequence_index, cube_index>>

\* _convert_cube_like_index_to_sequence_indices; sequence positions are 0-based.
convert_cube_like_index_to_sequence_indices(cube_like_index, cumul) ==
    IF cube_like_index < cumul[1]
    THEN <<0, cube_like_index>>
    ELSE LET where == {i \in 1..Len(cumul) : cumul[i] <= cube_like_index}
             sequence_index == SetMax(where) - 1
             cube_index == IF cube_like_index > cumul[Len(cumul)] - 1
                           THEN cumul[1] - 1
                           ELSE cube_like_index - cumul[sequence_index + 1]
         IN <<IF sequence_index < Len(cumul) - 1
              THEN sequence_index + 1 ELSE sequence_index,
              cube_index>>

ConvertSliceNarrow(cube_like_slice, cumul) ==
    LET n == Len(cumul)
        st == IF ~IsNone(cube_like_slice.start)
              THEN convert_cube_like_index_to_sequence_indices(cube_like_slice.start.v, cumul)
              ELSE convert_cube_like_index_to_sequence_indices(0, cumul)
        sp0 == IF ~IsNone(cube_like_slice.stop)
               THEN convert_cube_like_index_to_sequence_indices(cube_like_slice.stop.v, cumul)
               ELSE convert_cube_like_index_to_sequence_indices(cumul[n], cumul)
        past == ~IsNone(cube_like_slice.stop) /\ ~(cube_like_slice.stop.v < cumul[n])
        sp == IF past THEN <<sp0[1] + 1, 0>> ELSE sp0
        step == cube_like_slice.step
    IN IF st[1] # sp[1]
       THEN [sequence_slice |-> SliceV(IntV(st[1]), IntV(sp[1]), step),
             cube_slice |->
                 IF sp[2] # 0
                 THEN ListV(<<SliceV(IntV(st[2]), IntV(cumul[st[1] + 1]), step),
                              SliceV(IntV(0), IntV(sp[2]), step)>>)
                 ELSE ListV(<<SliceV(IntV(st[2]), IntV(cumul[st[1] + 1]), step)>>)]
       ELSE [sequence_slice |-> SliceV(IntV(st[1]), IntV(sp[1] + 1), step),
             cube_slice |-> SliceV(IntV(st[2]), IntV(sp[2]), step)]

\* _convert_cube_like_slice_to_sequence_slices.
convert_cube_like_slice_to_sequence_slices(cube_like_slice, cumul) ==
    LET n == Len(cumul)
        st == IF ~IsNone(cube_like_slice.start)
              THEN convert_cube_like_index_to_sequence_indices(cube_like_slice.start.v, cumul)
              ELSE convert_cube_like_index_to_sequence_indices(0, cumul)
        sp0 == IF ~IsNone(cube_like_slice.stop)
               THEN convert_cube_like_index_to_sequence_indices(cube_like_slice.stop.v, cumul)
               ELSE convert_cube_like_index_to_sequence_indices(cumul[n], cumul)
        past == ~IsNone(cube_like_slice.stop) /\ ~(cube_like_slice.stop.v < cumul[n])
        sp == IF past THEN <<sp0[1] + 1, 0>> ELSE sp0
        step == cube_like_slice.step
    IN IF st[1] # sp[1]
       THEN IF sp[2] # 0
            THEN [sequence_slice |-> SliceV(IntV(st[1]), IntV(sp[1] + 1), step),
                  cube_slice |->
                      ListV(<<SliceV(IntV(st[2]), IntV(cumul[st[1] + 1]), step),
                              SliceV(IntV(0), IntV(sp[2]), step)>>)]
            ELSE [sequence_slice |-> SliceV(IntV(st[1]), IntV(sp[1]), step),
                  cube_slice |->
                      ListV(<<SliceV(IntV(st[2]), IntV(cumul[st[1] + 1]), step)>>)]
       ELSE [sequence_slice |-> SliceV(IntV(st[1]), IntV(sp[1] + 1), step),
             cube_slice |-> SliceV(IntV(st[2]), IntV(sp[2]), step)]

\* cube[x]: Cube indexing of a rank-3 cube is getitem_3d.
CubeGetSlice(c, sl) == getitem_3d(c, sl).val

\* Every cube of data indexed by the components after the local slices.
ApplyRest(data, rest) ==
    [i \in 1..Len(data) |->
        IF Len(rest) = 1 THEN getitem_3d(data[i], rest[1]).val
        ELSE getitem_3d(data[i], TupleV(rest)).val]

\* cubesequence._new_instance(data, ...)
NewSequence(data) == [k |-> "CubeSequence", data |-> data]

(***************************************************************************)
(* get_cube_from_sequence(cubesequence, item), the second definition of    *)
(* that name, which is the one the module keeps.  data is the list of      *)
(* cubes; ints are non-negative.                                           *)
(***************************************************************************)
get_cube_from_sequence(data, item) ==
    IF IsInt(item)
    THEN IF item.v < Len(data) THEN Return(data[item.v + 1]) ELSE Raise("IndexError")
    ELSE IF IsSlice(item)
    THEN Return(NewSequence(Take(data, PySliceIndices(Len(data), item))))
    ELSE IF ~IsTuple(item) THEN Raise("UnboundLocalError")
    ELSE IF IsInt(item.items[1])
    THEN IF ~(item.items[1].v < Len(data)) THEN Raise("IndexError")
         ELSE IF Len(item.items) - 1 = 1
         THEN getitem_3d(data[item.items[1].v + 1], item.items[2])
         ELSE getitem_3d(data[item.items[1].v + 1], TupleV(Tail(item.items)))
    ELSE IF IsSlice(item.items[1])
    THEN LET sel == Take(data, PySliceIndices(Len(data), item.items[1]))
         IN IF Len(sel) = 0 THEN Raise("IndexError")
            ELSE IF ~IsList(item.items[2]) THEN Raise("TypeError")
            ELSE LET locals == item.items[2].items
                     d1 == [sel EXCEPT ![1] = CubeGetSlice(sel[1], locals[1])]
                     d2 == IF Len(locals) = 2
                           THEN [d1 EXCEPT ![Len(d1)] =
                                     CubeGetSlice(d1[Len(d1)], locals[Len(locals)])]
                           ELSE d1
                     rest == SubSeq(item.items, 3, Len(item.items))
                 IN Return(NewSequence(ApplyRest(d2, rest)))
    ELSE Raise("UnboundLocalError")

\* cubesequence.data for a sequence whose cubes abut along common_axis: cube
\* i has extent ls[i] there, holding global positions, and extent 1 elsewhere.
SequenceDataOn(ls, common_axis) ==
    [i \in 1..Len(ls) |->
        [NewCube(<<"HPLN-TAN", "HPLT-TAN", "TIME">>,
                 [a \in 1..3 |-> IF a = common_axis + 1 THEN ls[i] ELSE 1])
            EXCEPT !.pos[common_axis + 1] = [j \in 1..ls[i] |-> SumTo(ls, i - 1) + j - 1]]]

\* cubesequence[item]: CubeSequence indexing is get_cube_from_sequence.
SequenceGetitem(s, item) ==
    get_cube_from_sequence(SequenceDataOn(s.lengths, s.common_axis), item)

\* index_sequence_as_cube up to its last line: the item_tuple it builds, or
\* what it raises.  item[common_axis] on a tuple that short is an IndexError.
item_tuple(s, item) ==
    LET common_axis == s.common_axis
        cumul == cumul_cube_lengths(s.lengths)
        Build(item_list, sequence_index, cube_index) ==
            Return(TupleV(<<sequence_index>>
                          \o [item_list EXCEPT ![common_axis + 1] = cube_index]))
    IN IF IsInt(item)
       THEN IF common_axis # 0
            THEN RaiseValueError("Input can only be indexed with an int if CubeSequence's common axis is 0")
            ELSE LET r == convert_cube_like_index_to_sequence_indices(item.v, cumul)
                 IN Build(<<item>>, IntV(r[1]), IntV(r[2]))
       ELSE IF IsSlice(item)
       THEN IF common_axis # 0
            THEN RaiseValueError("Input can only be sliced with a single slice if CubeSequence's common axis is 0")
            ELSE LET r == convert_cube_like_slice_to_sequence_slices(item, cumul)
                 IN Build(<<item>>, r.sequence_slice, r.cube_slice)
       ELSE IF Len(item.items) <= common_axis THEN Raise("IndexError")
       ELSE IF IsInt(item.items[common_axis + 1])
       THEN LET r == convert_cube_like_index_to_sequence_indices(
                         item.items[common_axis + 1].v, cumul)
            IN Build(item.items, IntV(r[1]), IntV(r[2]))
       ELSE IF IsSlice(item.items[common_axis + 1])
       THEN LET r == convert_cube_like_slice_to_sequence_slices(
                         item.items[common_axis + 1], cumul)
            IN Build(item.items, r.sequence_slice, r.cube_slice)
       ELSE RaiseValueError("Invalid index/slice input.")

\* index_sequence_as_cube(cubesequence, item)
index_sequence_as_cube(s, item) ==
    LET t == item_tuple(s, item)
    IN IF t.ok THEN SequenceGetitem(s, t.val) ELSE t

(***************************************************************************)
(* The objects a session constructs and the inputs of the calls.           *)
(***************************************************************************)
Tags == {"TIME", "UTC", "WAVE", "HPLT-TAN", "HPLN-TAN", "STOKES"}
CubeTags == {"TIME", "WAVE", "HPLT-TAN", "HPLN-TAN"}

Sequences == {[k |-> "CubeSequence", lengths |-> ls, common_axis |-> ca] :
                 ls \in SeqsOf(1..MaxLen, 1, MaxCubes), ca \in 0..MaxCommonAxis}

Cubes == {NewCube(axes, [i \in 1..3 |-> MaxExtent]) : axes \in [1..3 -> CubeTags]}
         \cup {NewCube(axes, [i \in 1..4 |-> MaxExtent]) :
                  axes \in {<<"HPLN-TAN", "HPLT-TAN", "WAVE", "TIME">>,
                            <<"TIME", "WAVE", "HPLT-TAN", "HPLN-TAN">>}}

\* Axis types of a WCS of two axes and of a WCS of five.
OtherCtypes == {<<"HPLN-TAN", "HPLT-TAN">>,
                <<"HPLN-TAN", "HPLT-TAN", "WAVE", "TIME", "STOKES">>}

\* An array of 2..5 axes, one extra array of the same shape, and a WCS that
\* WCS.__init__ has just built (oriented = False).
Pairs == {[k |-> "Pair", array |-> [i \in 1..n |-> i - 1], extra |-> [i \in 1..n |-> i - 1],
           wcs |-> [ctype |-> ct, oriented |-> FALSE, was_augmented |-> aug]] :
             n \in 2..5, ct \in SeqsOf(Tags, 3, 4) \cup OtherCtypes, aug \in BOOLEAN}

\* A WCS of two axes (WCS order), the second with default parameters, and a
\* trailing synthetic axis when the WCS was augmented.
AxesWcs ==
    {[k |-> "WCS", was_augmented |-> aug,
      cunit |-> <<cu, "deg">> \o (IF aug THEN <<"deg">> ELSE <<>>),
      crpix |-> <<cp, 0>> \o (IF aug THEN <<0>> ELSE <<>>),
      crval |-> <<cv, 0>> \o (IF aug THEN <<0>> ELSE <<>>),
      cdelt |-> <<cd, 1>> \o (IF aug THEN <<1>> ELSE <<>>)] :
        aug \in BOOLEAN, cu \in {"deg", "arcsec"}, cp \in 0..MaxCrpix,
        cv \in 0..MaxCrval, cd \in (1..MaxCdelt) \cup {-1}}

OptInts(lo, hi) == {NoneV} \cup {IntV(n) : n \in lo..hi}

\* Index components handed to cube indexing.
ItemInts == {IntV(n) : n \in 0..MaxInt} \cup {IntV(5)}
ItemSlices == {SliceV(NoneV, NoneV, NoneV), SliceV(IntV(1), NoneV, NoneV),
               SliceV(IntV(0), IntV(2), NoneV)}
Items(rank) ==
    ItemInts \cup ItemSlices
    \cup {TupleV(xs) : xs \in SeqsOf(ItemInts \cup ItemSlices, 1, rank)}

\* Slices handed to reduce_dim.
ReduceSlices ==
    {SliceV(a, b, c) : a \in OptInts(-1, MaxExtent + 1), b \in OptInts(-1, MaxExtent + 1),
                       c \in OptInts(1, 2)}

\* Slice components that may carry units.
UnitValues == {NoneV, IntV(2), QuantityV(1, "deg"), QuantityV(2, "arcsec"),
               QuantityV(1, "pix")}
UnitSlices == {SliceV(a, b, c) : a \in UnitValues, b \in UnitValues, c \in UnitValues}
PixelItems ==
    UnitSlices \cup (UnitValues \ {NoneV})
    \cup {TupleV(<<x, y>>) : x \in {IntV(0), SliceV(NoneV, QuantityV(1, "deg"), NoneV),
                                   SliceV(QuantityV(1, "deg"), QuantityV(1, "pix"), NoneV)},
                             y \in UnitValues \ {NoneV}}

\* Values and units handed to convert_point and pixelize.
PointValues == {NoneV, QuantityV(1, "deg")} \cup {IntV(n) : n \in (-MaxValue)..MaxValue}
PointUnits == {"None", "pix", "deg", "arcsec"}
Coords == {IntV(2), QuantityV(1, "deg"), QuantityV(2, "arcsec"), QuantityV(1, "pix")}

\* Indices handed to index_sequence_as_cube for a sequence of `total`
\* elements: the common-axis component is an int or a slice, the others are
\* an int or the full slice; tuples may be too short to hold the common axis.
CommonAxisItems(total) ==
    {IntV(n) : n \in 0..total}
    \cup {SliceV(a, b, NoneV) : a \in OptInts(0, 1), b \in OptInts(1, total)}
OtherAxisItems == {IntV(0), SliceV(NoneV, NoneV, NoneV)}
SequenceItems(total, common_axis) ==
    CommonAxisItems(total)
    \cup {TupleV(xs) : xs \in SeqsOf(OtherAxisItems, 1, common_axis)}
    \cup {TupleV(xs) : xs \in {ys \in SeqsOf(CommonAxisItems(total) \cup OtherAxisItems,
                                               common_axis + 1, 3) :
                                  \A i \in 1..Len(ys) :
                                     i # common_axis + 1 => ys[i] \in OtherAxisItems}}

\* The cards of a real axis of a header.
RealCard(t) == [CTYPE |-> t, CRPIX |-> 1, CDELT |-> 2, CRVAL |-> 1, CUNIT |-> "arcsec",
                CNAME |-> "", CROTA |-> 0]

\* Headers of 2..MaxAxes axes with at most two celestial axes, with a NAXIS
\* card (a FITS header) or without one (a WCS-only header).
Headers ==
    {[k |-> "Header", NAXIS |-> IF has THEN IntV(Len(ct)) ELSE NoneV,
      cards |-> [i \in 1..Len(ct) |-> RealCard(ct[i])]] :
        ct \in {c \in SeqsOf(CubeTags, 2, MaxAxes) : Len(CelestialOf(c)) <= 2},
        has \in BOOLEAN}

NoCall == [op |-> "none"]

Init ==
    /\ call = NoCall
    /\ \/ seq \in Sequences /\ cube = NoneV /\ pair = NoneV /\ axes_wcs = NoneV
          /\ header = NoneV
       \/ seq = NoneV /\ cube \in Cubes /\ pair = NoneV /\ axes_wcs = NoneV
          /\ header = NoneV
       \/ seq = NoneV /\ cube = NoneV /\ pair \in Pairs /\ axes_wcs = NoneV
          /\ header = NoneV
       \/ seq = NoneV /\ cube = NoneV /\ pair = NoneV /\ axes_wcs \in AxesWcs
          /\ header = NoneV
       \/ seq = NoneV /\ cube = NoneV /\ pair = NoneV /\ axes_wcs = NoneV
          /\ header \in Headers

(***************************************************************************)
(* The calls.  orient rebinds the pair and WCS._augment may write to the   *)
(* header it is given, so those calls can follow one another; every other  *)
(* call leaves its object as it is, so one such call per object reaches    *)
(* every state a session of calls can reach.                               *)
(***************************************************************************)
IndexToSequenceIndices ==
    /\ ~IsNone(seq) /\ call = NoCall
    /\ LET cumul == cumul_cube_lengths(seq.lengths)
       IN \E g \in 0..(cumul[Len(cumul)] + 1) :
             call' = [op |-> "index_to_sequence_indices", index |-> g,
                      res |-> convert_cube_like_index_to_sequence_indices(g, cumul)]
    /\ UNCHANGED <<seq, cube, pair, axes_wcs, header>>

SliceToSequenceSlices ==
    /\ ~IsNone(seq) /\ call = NoCall
    /\ LET cumul == cumul_cube_lengths(seq.lengths)
           total == cumul[Len(cumul)]
       IN \E a \in OptInts(0, total + 1), b \in OptInts(0, total + 1), c \in OptInts(1, 2) :
             call' = [op |-> "slice_to_sequence_slices", slice |-> SliceV(a, b, c),
                      res |-> convert_cube_like_slice_to_sequence_slices(
                                  SliceV(a, b, c), cumul)]
    /\ UNCHANGED <<seq, cube, pair, axes_wcs, header>>

Getitem3d ==
    /\ ~IsNone(cube) /\ ndim(cube) = 3 /\ call = NoCall
    /\ \E item \in Items(3) :
          call' = [op |-> "getitem_3d", item |-> item,
                   flags |-> Classify3d(cube.axes, item),
                   res |-> getitem_3d(cube, item)]
    /\ UNCHANGED <<seq, cube, pair, axes_wcs, header>>

Getitem4d ==
    /\ ~IsNone(cube) /\ ndim(cube) = 4 /\ call = NoCall
    /\ \E item \in Items(4) :
          call' = [op |-> "getitem_4d", item |-> item,
                   flags |-> Classify4d(item),
                   res |-> getitem_4d(cube, item)]
    /\ UNCHANGED <<seq, cube, pair, axes_wcs, header>>

ReduceDim ==
    /\ ~IsNone(cube) /\ call = NoCall
    /\ \E axis \in 0..(ndim(cube) - 1), keys \in ReduceSlices :
          call' = [op |-> "reduce_dim", axis |-> axis, keys |-> keys,
                   res |-> reduce_dim(cube, axis, keys)]
    /\ UNCHANGED <<seq, cube, pair, axes_wcs, header>>

SelectOrder ==
    /\ ~IsNone(pair) /\ call = NoCall
    /\ call' = [op |-> "select_order", axtypes |-> pair.wcs.ctype,
                res |-> select_order(pair.wcs.ctype)]
    /\ UNCHANGED <<seq, cube, pair, axes_wcs, header>>

\* array, wcs, extra = orient(array, wcs, extra)
Orient ==
    /\ ~IsNone(pair) /\ call.op \in {"none", "orient"}
    /\ LET r == orient(pair)
       IN /\ call' = [op |-> "orient", arg |-> pair, res |-> r]
          /\ pair' = IF r.ok THEN r.val ELSE pair
    /\ UNCHANGED <<seq, cube, axes_wcs, header>>

ConvertSlice ==
    /\ ~IsNone(axes_wcs) /\ call = NoCall
    /\ \E item \in UnitSlices, axis \in 0..1, source \in {"cube", "sequence"} :
          call' = [op |-> "convert_slice", item |-> item, axis |-> axis, source |-> source,
                   res |-> convert_slice(item, axes_wcs, axis, source)]
    /\ UNCHANGED <<seq, cube, pair, axes_wcs, header>>

PixelizeSlice ==
    /\ ~IsNone(axes_wcs) /\ call = NoCall
    /\ \E item \in PixelItems, source \in {"cube", "sequence"} :
          call' = [op |-> "pixelize_slice", item |-> item, source |-> source,
                   res |-> pixelize_slice(item, axes_wcs, source)]
    /\ UNCHANGED <<seq, cube, pair, axes_wcs, header>>

ConvertPoint ==
    /\ ~IsNone(axes_wcs) /\ call = NoCall
    /\ \E value \in PointValues, unit \in PointUnits, axis \in 0..1,
          source \in {"cube", "sequence"} :
          call' = [op |-> "convert_point", value |-> value, unit |-> unit, axis |-> axis,
                   source |-> source,
                   res |-> convert_point(value, unit, axes_wcs, axis, source)]
    /\ UNCHANGED <<seq, cube, pair, axes_wcs, header>>

Pixelize ==
    /\ ~IsNone(axes_wcs) /\ call = NoCall
    /\ \E coord \in Coords, axis \in 0..1 :
          call' = [op |-> "pixelize", coord |-> coord, axis |-> axis,
                   res |-> pixelize(coord, axes_wcs, axis)]
    /\ UNCHANGED <<seq, cube, pair, axes_wcs, header>>

IndexSequenceAsCube ==
    /\ ~IsNone(seq) /\ call = NoCall
    /\ \E item \in SequenceItems(SumTo(seq.lengths, Len(seq.lengths)), seq.common_axis) :
          call' = [op |-> "index_sequence_as_cube", item |-> item,
                   item_tuple |-> item_tuple(seq, item),
                   res |-> index_sequence_as_cube(seq, item)]
    /\ UNCHANGED <<seq, cube, pair, axes_wcs, header>>

\* newheader = WCS._augment(header, naxis), as WCS.__init__ calls it.
Augment ==
    /\ ~IsNone(header) /\ call.op \in {"none", "augment", "wcs_init"}
    /\ needs_augmenting(header)
    /\ \E naxis \in OptInts(2, MaxAxes) :
          LET a == augment(header, naxis)
          IN /\ call' = [op |-> "augment", arg |-> header, naxis |-> naxis, res |-> a.res]
             /\ header' = a.header
    /\ UNCHANGED <<seq, cube, pair, axes_wcs>>

\* WCS(header, naxis)
WcsInit ==
    /\ ~IsNone(header) /\ call.op \in {"none", "augment", "wcs_init"}
    /\ \E naxis \in OptInts(2, MaxAxes) :
          LET a == wcs_init(header, naxis)
          IN /\ call' = [op |-> "wcs_init", arg |-> header, naxis |-> naxis, res |-> a.res]
             /\ header' = a.header
    /\ UNCHANGED <<seq, cube, pair, axes_wcs>>

AddCelestialAxis ==
    /\ ~IsNone(pair) /\ call = NoCall
    /\ Len(CelestialOf(pair.wcs.ctype)) = 1
    /\ call' = [op |-> "add_celestial_axis", arg |-> pair.wcs,
                res |-> add_celestial_axis(pair.wcs)]
    /\ UNCHANGED <<seq, cube, pair, axes_wcs, header>>

Next ==
    \/ IndexToSequenceIndices
    \/ SliceToSequenceSlices
    \/ Getitem3d
    \/ Getitem4d
    \/ ReduceDim
    \/ SelectOrder
    \/ Orient
    \/ ConvertSlice
    \/ PixelizeSlice
    \/ ConvertPoint
    \/ Pixelize
    \/ Augment
    \/ WcsInit
    \/ AddCelestialAxis
    \/ IndexSequenceAsCube

Spec == Init /\ [][Next]_vars

(***************************************************************************)
(* What the claims are stated in: the concatenation of a sequence's cubes. *)
(***************************************************************************)
\* The 0-based position of the cube that holds global position g.
CubeContaining(ls, g) ==
    CHOOSE s \in 0..(Len(ls) - 1) : SumTo(ls, s) <= g /\ g < SumTo(ls, s + 1)

\* The global positions held by a list of cubes, in order.
RECURSIVE Concatenation(_)
Concatenation(cubes) ==
    IF cubes = <<>> THEN <<>> ELSE Head(cubes).pos[1] \o Concatenation(Tail(cubes))

\* A bare local slice as the one-element list get_cube_from_sequence reads.
LocalSlices(cube_slice) == IF IsList(cube_slice) THEN cube_slice ELSE ListV(<<cube_slice>>)

\* The elements a (sequence slice, local slices) pair selects.
Selected(ls, res) ==
    LET r == get_cube_from_sequence(
                 SequenceData(ls),
                 TupleV(<<res.sequence_slice, LocalSlices(res.cube_slice)>>))
    IN IF r.ok THEN Concatenation(r.val.data) ELSE <<>>

\* C1: for every slice(start, stop) with step None and None or non-negative bounds, the
\* elements the returned (sequence slice, local slices) pair selects are, in
\* order, the global positions start..stop-1 of the concatenation, with None
\* defaults and clipping as in array slicing.
C1_SliceSelectsConcatenation ==
    (call.op = "slice_to_sequence_slices" /\ IsNone(call.slice.step)) =>
        LET total == SumTo(seq.lengths, Len(seq.lengths))
            start == IF IsNone(call.slice.start) THEN 0 ELSE Min(call.slice.start.v, total)
            stop == IF IsNone(call.slice.stop) THEN total ELSE Min(call.slice.stop.v, total)
        IN Selected(seq.lengths, call.res) = PyRange(start, stop, 1)

\* C2: for a global index g inside the concatenation the function returns
\* the position s of the cube holding g and l = g minus that cube's offset,
\* so 0 <= l < length of cube s; g below the first length gives (0, g).
C2_IndexResolvesToContainingCube ==
    (call.op = "index_to_sequence_indices"
     /\ call.index < SumTo(seq.lengths, Len(seq.lengths))) =>
        LET s == CubeContaining(seq.lengths, call.index)
        IN /\ call.res = <<s, call.index - SumTo(seq.lengths, s)>>
           /\ 0 <= call.res[2] /\ call.res[2] < seq.lengths[call.res[1] + 1]
           /\ (call.index < seq.lengths[1] => call.res = <<0, call.index>>)

\* C2's case: cumulative lengths [3,6,9] and index 5 give (1, 2).
C2_Witness ==
    /\ call.op = "index_to_sequence_indices"
    /\ seq.lengths = <<3, 3, 3>> /\ call.index = 5
    /\ call.res = <<1, 2>>

\* C3: a slice(start, stop), 0 <= start < stop < total, whose ends lie in
\* different cubes p < q yields the sequence slice [p, q+1) and the local
\* slices [tail of p from the local start, slice(0, local stop)] when the
\* local stop is not 0, and the sequence slice [p, q) with only the tail of
\* p when the local stop is 0.
C3_MultiCubeSlice ==
    (/\ call.op = "slice_to_sequence_slices" /\ IsNone(call.slice.step)
     /\ ~IsNone(call.slice.start) /\ ~IsNone(call.slice.stop)
     /\ call.slice.start.v < call.slice.stop.v
     /\ call.slice.stop.v < SumTo(seq.lengths, Len(seq.lengths))
     /\ CubeContaining(seq.lengths, call.slice.start.v)
            < CubeContaining(seq.lengths, call.slice.stop.v)) =>
        LET ls == seq.lengths
            p == CubeContaining(ls, call.slice.start.v)
            q == CubeContaining(ls, call.slice.stop.v)
            local_start == call.slice.start.v - SumTo(ls, p)
            local_stop == call.slice.stop.v - SumTo(ls, q)
            locals == call.res.cube_slice
            tail == PyRange(call.slice.start.v, SumTo(ls, p + 1), 1)
        IN /\ IsList(locals)
           /\ locals.items[1].start = IntV(local_start)
           /\ IsNone(locals.items[1].step)
           /\ CubeGetSlice(SequenceData(ls)[p + 1], locals.items[1]).pos[1] = tail
           /\ IF local_stop # 0
              THEN /\ call.res.sequence_slice = SliceV(IntV(p), IntV(q + 1), NoneV)
                   /\ Len(locals.items) = 2
                   /\ locals.items[2] = SliceV(IntV(0), IntV(local_stop), NoneV)
              ELSE /\ call.res.sequence_slice = SliceV(IntV(p), IntV(q), NoneV)
                   /\ Len(locals.items) = 1

\* C3's case: three cubes of length 3 and slice(2, 7).
C3_Witness ==
    /\ call.op = "slice_to_sequence_slices"
    /\ seq.lengths = <<3, 3, 3>>
    /\ call.slice = SliceV(IntV(2), IntV(7), NoneV)
    /\ call.res.sequence_slice = SliceV(IntV(0), IntV(3), NoneV)
    /\ call.res.cube_slice = ListV(<<SliceV(IntV(2), IntV(3), NoneV),
                                     SliceV(IntV(0), IntV(1), NoneV)>>)

\* The index shape and cube of C4: (int, slice, slice) on WAVE, HPLT-TAN, HPLN-TAN.
C4_Case ==
    /\ call.op = "getitem_3d"
    /\ cube.axes = <<"WAVE", "HPLT-TAN", "HPLN-TAN">>
    /\ iter_isinstance(call.item, {<<"int", "slice", "slice">>})

\* C4 as claimed: the index is classified as spectrum-producing and
\* slice_to_spectrum is called with (item[0], None).
C4_Original ==
    C4_Case =>
        /\ call.flags.slice_to_spectrum
        /\ call.res.ok /\ call.res.val.fn = "slice_to_spectrum"
        /\ call.res.val.args = <<call.item.items[1], NoneV>>

\* C4, amended: with axis 1 not WAVE the index (int, slice, slice) is
\* classified as map-producing, not spectrum-producing, and handle_slice_to_map
\* calls slice_to_map(item[0]) on the reduced cube.
C4_DispatchesToMap ==
    C4_Case =>
        /\ call.flags.slice_to_map /\ ~call.flags.slice_to_spectrum
        /\ call.res = Return(Product("slice_to_map", reducedcube(cube, call.item),
                                     <<call.item.items[1]>>, {}))

C4_Witness ==
    /\ C4_Case
    /\ call.item = TupleV(<<IntV(5), SliceV(NoneV, NoneV, NoneV), SliceV(NoneV, NoneV, NoneV)>>)
    /\ call.res.val.fn = "slice_to_map"

\* How many of a list's entries equal t.
Count(xs, t) == Cardinality({i \in 1..Len(xs) : xs[i] = t})

FlagNames == {"slice_to_map", "slice_to_spectrum", "slice_to_spectrogram",
              "slice_to_lightcurve", "slice_to_cube", "stay_as_cube"}

\* C5: for a rank-3 cube with WAVE at most once among its axis types, and
\* for every rank-4 cube, at most one classification flag is true.
C5_FlagsExclusive ==
    (/\ call.op \in {"getitem_3d", "getitem_4d"}
     /\ (call.op = "getitem_3d" => Count(cube.axes, "WAVE") <= 1)) =>
        Cardinality({f \in FlagNames : call.flags[f]}) <= 1

\* C5's case: an index both ranks classify, with one flag set.
C5_Witness ==
    /\ call.op = "getitem_3d"
    /\ cube.axes = <<"HPLN-TAN", "WAVE", "TIME">>
    /\ iter_isinstance(call.item, {<<"slice", "int", "int">>})
    /\ {f \in FlagNames : call.flags[f]} = {"slice_to_lightcurve"}

\* C6: orient applied to the result of orient returns that result unchanged.
C6_OrientIdempotent ==
    (call.op = "orient" /\ call.res.ok) =>
        /\ call.res.val.wcs.oriented
        /\ orient(call.res.val) = Return(call.res.val)
        /\ pair = call.res.val

\* C6's case: a second call on a pair the first call has permuted.
C6_Witness ==
    /\ call.op = "orient" /\ call.res.ok
    /\ call.arg.wcs.oriented
    /\ call.arg.array # [i \in 1..Len(call.arg.array) |-> i - 1]
    /\ call.res.val = call.arg

C8_ReduceDimSelection ==
    call.op = "reduce_dim" =>
        LET extent == shape(cube)[call.axis + 1]
            start == IF IsNone(call.keys.start) THEN 0 ELSE Max(call.keys.start.v, 0)
            stop == IF IsNone(call.keys.stop) THEN extent ELSE Min(call.keys.stop.v, extent)
            step == IF IsNone(call.keys.step) THEN 1 ELSE call.keys.step.v
            wanted == {x \in 0..(extent - 1) :
                          x >= start /\ x < stop /\ (x - start) % step = 0}
            got == call.res.pos[call.axis + 1]
        IN /\ {got[i] : i \in 1..Len(got)} = wanted
           /\ \A i \in 1..(Len(got) - 1) : got[i] < got[i + 1]
           /\ \A i \in 1..Len(got) : 0 <= got[i] /\ got[i] < extent
           /\ \A a \in 1..ndim(cube) : a # call.axis + 1 => call.res.pos[a] = cube.pos[a]
           /\ (call.keys = SliceV(NoneV, NoneV, NoneV) =>
                   /\ shape(call.res) = shape(cube)
                   /\ call.res.pos = cube.pos)

\* C8's case: both bounds out of range and a step of 2.
C8_Witness ==
    /\ call.op = "reduce_dim"
    /\ call.keys = SliceV(IntV(-1), IntV(MaxExtent + 1), IntV(2))
    /\ call.res.pos[call.axis + 1] = PyRange(0, MaxExtent, 2)

\* The units carried by a slice's start, stop and step.
UnitsOf(item) ==
    {x.unit : x \in {y \in {item.start, item.stop, item.step} : IsQuantity(y)}}

\* C9: a slice two of whose components carry different units, convertible
\* or not, makes _convert_slice (and pixelize_slice through it) raise
\* CubeError 5; a slice with no unit at all is returned unchanged.
C9_UnitMismatchRaises ==
    /\ (call.op \in {"convert_slice", "pixelize_slice"} /\ IsSlice(call.item)) =>
           /\ (Cardinality(UnitsOf(call.item)) >= 2 => call.res = RaiseCubeError(5))
           /\ (UnitsOf(call.item) = {} => call.res = Return(call.item))
    /\ (/\ call.op = "pixelize_slice" /\ IsTuple(call.item)
        /\ IsSlice(call.item.items[1])
        /\ Cardinality(UnitsOf(call.item.items[1])) >= 2) =>
           call.res = RaiseCubeError(5)

\* C9's case: start in degrees, stop in arcseconds.
C9_Witness ==
    /\ call.op = "pixelize_slice"
    /\ call.item = SliceV(QuantityV(1, "deg"), QuantityV(2, "arcsec"), NoneV)
    /\ ~call.res.ok /\ call.res.err = "CubeError" /\ call.res.value = 5

\* C10: getitem_4d yields the slice_to_cube product exactly for a bare int
\* or a tuple with exactly one int; the call is slice_to_cube(axis, value) on
\* the cube reduced by the tuple's slices, axis being the int's position.
C10_ReducesToCube ==
    call.op = "getitem_4d" =>
        LET item == call.item
            one_int == IsInt(item) \/ (IsTuple(item) /\ Len(IntsOf(item.items)) = 1)
            to_cube == call.res.ok /\ call.res.val.k = "Product"
                       /\ call.res.val.fn = "slice_to_cube"
        IN /\ to_cube <=> one_int
           /\ (one_int /\ IsInt(item)) =>
                  /\ call.res.val.args = <<IntV(0), item>>
                  /\ call.res.val.on = cube
           /\ (one_int /\ IsTuple(item)) =>
                  \E j \in 1..Len(item.items) :
                     /\ IsInt(item.items[j])
                     /\ call.res.val.args = <<IntV(j - 1), item.items[j]>>
                     /\ \A a \in 1..ndim(cube) :
                           call.res.val.on.pos[a] =
                              IF a <= Len(item.items) /\ IsSlice(item.items[a])
                              THEN reduce_dim(cube, a - 1, item.items[a]).pos[a]
                              ELSE cube.pos[a]

\* C10's case: the single int sits at position 2 between slices.
C10_Witness ==
    /\ call.op = "getitem_4d"
    /\ call.item = TupleV(<<SliceV(IntV(1), NoneV, NoneV), SliceV(NoneV, NoneV, NoneV),
                            IntV(1), SliceV(IntV(0), IntV(2), NoneV)>>)
    /\ call.res.val.fn = "slice_to_cube"
    /\ call.res.val.args = <<IntV(2), IntV(1)>>
    /\ shape(call.res.val.on) = <<MaxExtent - 1, MaxExtent, MaxExtent, 2>>

Abs(x) == IF x < 0 THEN -x ELSE x

\* The WCS axis (1-based) that array axis `axis` names: reverse array order,
\* one further position when the WCS was augmented.
WcsAxisOf(w, axis, source) ==
    IF source = "cube"
    THEN (IF w.was_augmented THEN Len(w.cdelt) - 1 - axis ELSE Len(w.cdelt) - axis)
    ELSE 2 - axis

\* C11: for a numeric value v with a physical unit, convert_point returns the
\* integer p nearest to crpix + (v - crval) / cdelt, so crval + (p - crpix) *
\* cdelt differs from v by at most one pixel (|cdelt|); None is returned as
\* None, and a value in the pixel unit is returned as its integer cast
\* whatever crpix, crval and cdelt are.  Lengths are in arcseconds.
C11_RoundTripWithinOnePixel ==
    call.op = "convert_point" =>
        /\ (IsNone(call.value) => call.res = Return(NoneV))
        /\ ((IsInt(call.value) /\ call.unit = "pix") => call.res = Return(IntV(call.value.v)))
        /\ ((IsInt(call.value) /\ call.unit \in {"deg", "arcsec"}) =>
               LET i == WcsAxisOf(axes_wcs, call.axis, call.source)
                   pixel == axes_wcs.cdelt[i] * Scale(axes_wcs.cunit[i])
                   v == call.value.v * Scale(call.unit)
                   back == axes_wcs.crval[i] * Scale(axes_wcs.cunit[i])
                           + (call.res.val.v - axes_wcs.crpix[i]) * pixel
               IN /\ call.res.ok /\ IsInt(call.res.val)
                  /\ Abs(back - v) <= Abs(pixel)
                  /\ 2 * Abs(back - v) <= Abs(pixel))

\* C11's case: crpix 1, crval 1, cdelt 2 arcsec and v = 2 arcsec: the exact
\* pixel 1.5 is rounded to 2, which converts back to 3.
C11_Witness ==
    /\ call.op = "convert_point"
    /\ call.value = IntV(2) /\ call.unit = "arcsec" /\ call.axis = 1 /\ call.source = "cube"
    /\ axes_wcs.cunit[1] = "arcsec" /\ axes_wcs.cdelt[1] = 2
    /\ axes_wcs.crpix[1] = 1 /\ axes_wcs.crval[1] = 1
    /\ call.res = Return(IntV(2))

\* C12: after reduce_dim(cube, axis, slice(start, stop, step)), for every
\* step including step > 1, the coordinate system describes along `axis`
\* exactly the positions the array holds, as do the mask and the
\* uncertainty, so the coordinate system's extent equals the array's extent.
C12_ReduceDimLockstep ==
    call.op = "reduce_dim" =>
        LET a == call.axis + 1
        IN /\ call.res.mask[a] = call.res.pos[a]
           /\ call.res.errors[a] = call.res.pos[a]
           /\ call.res.wcs_pos[a] = call.res.pos[a]
           /\ Len(call.res.wcs_pos[a]) = shape(call.res)[a]

\* C13: for a WCS that is not yet oriented, orient accepts the pair if and
\* only if the array rank is 3 or 4 and the WCS axis count is the rank when
\* was_augmented is false and rank + 1 when it is true; every other
\* combination is rejected by one of the two validation errors.
C13_AcceptsIffConsistent ==
    (call.op = "orient" /\ ~call.arg.wcs.oriented) =>
        LET rank == Len(call.arg.array)
            naxis == Len(call.arg.wcs.ctype)
            consistent == /\ rank \in {3, 4}
                          /\ naxis = IF call.arg.wcs.was_augmented THEN rank + 1 ELSE rank
            rejected == call.res \in
                {RaiseValueError("Input array must be 3- or 4-dimensional"),
                 RaiseValueError("WCS must have the same dimensions as the array")}
        IN consistent <=> ~rejected

\* An augmented pair as WCS.__init__ leaves it: a rank-3 array, three
\* distinct real axis types and a synthetic spatial axis last.
C14_Case ==
    /\ call.op = "orient" /\ ~call.arg.wcs.oriented
    /\ call.arg.wcs.was_augmented
    /\ Len(call.arg.array) = 3 /\ Len(call.arg.wcs.ctype) = 4
    /\ call.arg.wcs.ctype[4] \in {"HPLN-TAN", "HPLT-TAN"}
    /\ \A i, j \in 1..3 : i # j => call.arg.wcs.ctype[i] # call.arg.wcs.ctype[j]

\* C14: orient on an augmented WCS keeps the synthetic axis last in the
\* resulting WCS axis order, whether it carries HPLN-TAN or HPLT-TAN, and
\* permutes the array over its 3 real axes only.
C14_SyntheticAxisStaysLast ==
    C14_Case =>
        /\ call.res.ok
        /\ select_order(call.arg.wcs.ctype)[4] = 3
        /\ call.res.val.wcs.ctype[4] = call.arg.wcs.ctype[4]
        /\ IsPermutation(call.res.val.array, 3)

\* C15: for a header with one unmatched celestial axis, WCS._augment returns
\* the header with one synthetic axis appended after its axes, carrying the
\* defaults (CRPIX 0, CDELT 1, CRVAL 0, CUNIT deg) and the type HPLN-TAN, or,
\* when the header with that type fails to resolve, the type the failure
\* reports as expected; the returned header resolves.
C15_AugmentedHeaderResolves ==
    call.op = "augment" =>
        /\ call.res.ok
        /\ LET out == call.res.val
               n == Len(call.arg.cards)
               m == Len(out.cards)
               default == AxisTypes(CtypesOf(SetCtype(out, m, "HPLN-TAN")))
           IN /\ m > n
              /\ \A i \in 1..n : out.cards[i] = call.arg.cards[i]
              /\ out.cards[m] = [new_wcs_axes_params EXCEPT
                                    !.CTYPE = IF default.ok THEN "HPLN-TAN"
                                              ELSE default.expected]
              /\ AxisTypes(CtypesOf(out)).ok

\* The cube positions the start and the stop of the last slice resolve to.
ResolvedStart ==
    convert_cube_like_index_to_sequence_indices(
        IF IsNone(call.slice.start) THEN 0 ELSE call.slice.start.v,
        cumul_cube_lengths(seq.lengths))[1]

ResolvedStop ==
    LET cumul == cumul_cube_lengths(seq.lengths)
        total == cumul[Len(cumul)]
        at == convert_cube_like_index_to_sequence_indices(
                  IF IsNone(call.slice.stop) THEN total ELSE call.slice.stop.v, cumul)[1]
    IN IF ~IsNone(call.slice.stop) /\ call.slice.stop.v >= total THEN at + 1 ELSE at

\* C16: for every slice, whatever its step, whose start and stop resolve to
\* different cubes p < q, the returned sequence slice selects the cube
\* positions from p up to the last selected one with none skipped, there
\* are at most two local slices, and get_cube_from_sequence leaves the cubes
\* strictly between the first and the last as they were.
C16_NoCubeSkipped ==
    (call.op = "slice_to_sequence_slices" /\ ResolvedStart < ResolvedStop) =>
        LET data == SequenceData(seq.lengths)
            sel == PySliceIndices(Len(data), call.res.sequence_slice)
            r == get_cube_from_sequence(
                     data, TupleV(<<call.res.sequence_slice, call.res.cube_slice>>))
        IN /\ Len(sel) >= 1 /\ sel[1] = ResolvedStart
           /\ \A i \in 1..(Len(sel) - 1) : sel[i + 1] = sel[i] + 1
           /\ IsList(call.res.cube_slice) /\ Len(call.res.cube_slice.items) <= 2
           /\ r.ok
           /\ \A i \in 2..(Len(sel) - 1) : r.val.data[i] = data[sel[i] + 1]

\* The common-axis component of the last index handed to index_sequence_as_cube.
CommonAxisComponent ==
    IF IsTuple(call.item) THEN call.item.items[seq.common_axis + 1] ELSE call.item

\* The components of the last index other than the common-axis one, in order.
OtherComponents ==
    IF IsTuple(call.item)
    THEN SubSeq(call.item.items, 1, seq.common_axis)
         \o SubSeq(call.item.items, seq.common_axis + 2, Len(call.item.items))
    ELSE <<>>

\* C17: for every common_axis and every accepted index whose common-axis
\* component is a slice, inside one cube or across several, the item_tuple
\* handed to sequence indexing has the sequence slice at position 0, a list
\* of one or two local slices at position 1, and the index's other
\* components after them, so get_cube_from_sequence can consume it.
C17_ItemTupleShape ==
    (/\ call.op = "index_sequence_as_cube"
     /\ call.item_tuple.ok
     /\ IsSlice(CommonAxisComponent)) =>
        LET t == call.item_tuple.val.items
        IN /\ IsSlice(t[1])
           /\ IsList(t[2]) /\ Len(t[2].items) \in {1, 2}
           /\ \A i \in 1..Len(t[2].items) : IsSlice(t[2].items[i])
           /\ SubSeq(t, 3, Len(t)) = OtherComponents
           /\ call.res.ok

\* C18: for every list of positive cube lengths and every non-negative
\* global index g, in range or not, the returned (s, l) addresses an
\* existing element, 0 <= s < number of cubes and 0 <= l < length of cube
\* s, and for g at or beyond the total length it is the last index of the
\* last cube.
C18_IndexAddressesElement ==
    call.op = "index_to_sequence_indices" =>
        LET n == Len(seq.lengths)
            s == call.res[1]
            l == call.res[2]
        IN /\ 0 <= s /\ s < n
           /\ 0 <= l /\ l < seq.lengths[s + 1]
           /\ (call.index >= SumTo(seq.lengths, n) =>
                   call.res = <<n - 1, seq.lengths[n] - 1>>)

====
